---- MODULE Spec2Model ----
(***************************************************************************)
(* A model of rustycat (src/src/main.rs): the logcat line extractor, the   *)
(* tag colour registry, the line renderer with its wrapping loop, and the  *)
(* read loop of main.                                                      *)
(*                                                                         *)
(* A Rust String is modelled as the sequence of its UTF-8 bytes.  A byte   *)
(* is written as a one-character TLA+ string, except for the two bytes of  *)
(* the two-byte character U+00E9, which are written "C3" and "A9".         *)
(* len(), slicing, split_at, find and rfind count bytes, as in Rust; the   *)
(* width of a formatted field counts characters.                           *)
(***************************************************************************)
EXTENDS Integers, Sequences, FiniteSets, TLC

(* ---------------------------------------------------------------- bounds *)

\* lines the log source of Spec delivers
MaxLines == 3
\* longest message (in bytes) the log source sends in Spec
MaxMsgLen == 4
\* widest room for the message (columns) the terminal leaves in Spec
MaxAvail == 3
\* most digits after the dot of the time token
MaxFrac == 4
\* read errors the model follows before the source delivers lines only
MaxOwed == 1
\* segments of one result the model follows (the loop may never end)
MaxSegs == 5
\* rendered records whose tags tagHist remembers
HistWindow == 3
\* index of the last tag the log source of SpecTags uses (tags 0..NumTags)
NumTags == 13

(* ------------------------------------------------------ program constants *)

TAG_WIDTH == 25
LEFT_PADDING == 2
TIMESTAMP_WIDTH == 12
DEFAULT_TERM_WIDTH == 80

TAG_COLORS_LIST ==
  << "Red", "Green", "Yellow", "Blue", "Magenta", "Cyan",
     "BrightRed", "BrightGreen", "BrightYellow", "BrightBlue",
     "BrightMagenta", "BrightCyan" >>

(* ------------------------------------------------ str and slice primitives *)

Lead == "C3"
Cont == "A9"

MinOf(S) == CHOOSE x \in S : \A y \in S : x <= y
MaxOf(S) == CHOOSE x \in S : \A y \in S : x >= y

Take(s, n) == SubSeq(s, 1, n)
Drop(s, n) == SubSeq(s, n + 1, Len(s))

\* " ".repeat(n)
repeat(b, n) == [i \in 1..n |-> b]

\* char::is_whitespace, on the bytes the model uses
is_whitespace(b) == b = " "

\* str::is_char_boundary(i), i a byte offset counted from 0
is_char_boundary(s, i) ==
  \/ i = 0
  \/ i = Len(s)
  \/ (i < Len(s) /\ s[i + 1] # Cont)

\* s.chars().count()
chars_count(s) == Cardinality({i \in 1..Len(s) : s[i] # Cont})

\* str::trim_start
trim_start(s) ==
  LET keep == {i \in 1..Len(s) : ~is_whitespace(s[i])}
  IN IF keep = {} THEN <<>> ELSE SubSeq(s, MinOf(keep), Len(s))

\* str::trim
trim(s) ==
  LET keep == {i \in 1..Len(s) : ~is_whitespace(s[i])}
  IN IF keep = {} THEN <<>> ELSE SubSeq(s, MinOf(keep), MaxOf(keep))

\* str::find(pat): byte offset (from 0) of the first match, -1 for None
find(s, pat) ==
  LET hits == {i \in 0..(Len(s) - Len(pat)) : SubSeq(s, i + 1, i + Len(pat)) = pat}
  IN IF hits = {} THEN -1 ELSE MinOf(hits)

\* str::rfind(' '): byte offset (from 0) of the last space, -1 for None
rfind_space(s) ==
  LET hits == {i \in 0..(Len(s) - 1) : s[i + 1] = " "}
  IN IF hits = {} THEN -1 ELSE MaxOf(hits)

\* str::trim_start_matches(pat): strips the prefix as often as it matches
RECURSIVE trim_start_matches(_, _)
trim_start_matches(s, pat) ==
  IF Len(pat) > 0 /\ Len(s) >= Len(pat) /\ Take(s, Len(pat)) = pat
  THEN trim_start_matches(Drop(s, Len(pat)), pat)
  ELSE s

\* str::split_whitespace().collect()
RECURSIVE split_whitespace(_)
split_whitespace(s) ==
  LET t == trim_start(s)
  IN IF t = <<>> THEN <<>>
     ELSE LET ws == {i \in 1..Len(t) : is_whitespace(t[i])}
              e  == IF ws = {} THEN Len(t) + 1 ELSE MinOf(ws)
          IN <<SubSeq(t, 1, e - 1)>> \o split_whitespace(SubSeq(t, e, Len(t)))

\* str::split('.').collect(): empty parts are kept
RECURSIVE split_dot(_)
split_dot(s) ==
  LET ds == {i \in 1..Len(s) : s[i] = "."}
  IN IF ds = {} THEN <<s>>
     ELSE <<SubSeq(s, 1, MinOf(ds) - 1)>> \o split_dot(SubSeq(s, MinOf(ds) + 1, Len(s)))

\* [&str]::join(" ")
RECURSIVE join(_)
join(parts) ==
  IF Len(parts) = 0 THEN <<>>
  ELSE IF Len(parts) = 1 THEN parts[1]
  ELSE parts[1] \o <<" ">> \o join(Tail(parts))

\* format!("{:>width$}", s): pads on the left up to width characters
pad_left(s, width) ==
  IF chars_count(s) >= width THEN s ELSE repeat(" ", width - chars_count(s)) \o s

\* format!("{:<width$}", s): pads on the right up to width characters
pad_right(s, width) ==
  IF chars_count(s) >= width THEN s ELSE s \o repeat(" ", width - chars_count(s))

\* usize::saturating_sub
saturating_sub(a, b) == IF a >= b THEN a - b ELSE 0

(* ------------------------------------------------------ extract_log_parts *)

NoParts == [timestamp |-> <<>>, tag |-> <<>>, level |-> <<>>, message |-> <<>>]

\* kind "None": fewer than 6 tokens; "Panic": &ms[..3] is out of range or
\* splits a character; "Some": the four fields.
extract_log_parts(line) ==
  LET parts == split_whitespace(line)
  IN IF Len(parts) < 6 THEN [kind |-> "None", rec |-> NoParts]
     ELSE
       LET time_parts == split_dot(parts[2])
           time == time_parts[1]
           ms == IF Len(time_parts) >= 2 THEN time_parts[2] ELSE <<"0", "0", "0">>
       IN IF Len(ms) < 3 \/ ~is_char_boundary(ms, 3)
          THEN [kind |-> "Panic", rec |-> NoParts]
          ELSE
            LET timestamp == time \o <<".">> \o Take(ms, 3)
                level == parts[5]
                tag_and_message == join(SubSeq(parts, 6, Len(parts)))
                pos == find(tag_and_message, <<":", " ">>)
                tag == IF pos >= 0 THEN Take(tag_and_message, pos) ELSE tag_and_message
                message == IF pos >= 0 THEN Drop(tag_and_message, pos) ELSE <<>>
            IN [kind |-> "Some",
                rec |-> [timestamp |-> timestamp,
                         tag |-> trim(tag),
                         level |-> level,
                         message |-> trim_start_matches(message, <<":", " ">>)]]

(* -------------------------------------------------------- get_level_color *)

\* The badge as it shows on screen and the colour of the message text.
get_level_color(level) ==
  CASE level = <<"D">> -> [level_str |-> <<" ", "D", " ">>, color |-> "BrightBlue"]
    [] level = <<"I">> -> [level_str |-> <<" ", "I", " ">>, color |-> "BrightGreen"]
    [] level = <<"W">> -> [level_str |-> <<" ", "W", " ">>, color |-> "Yellow"]
    [] level = <<"E">> -> [level_str |-> <<" ", "E", " ">>, color |-> "BrightRed"]
    [] level = <<"V">> -> [level_str |-> <<" ", "V", " ">>, color |-> "Blue"]
    [] level = <<"F">> -> [level_str |-> <<" ", "F", " ">>, color |-> "Red"]
    [] OTHER -> [level_str |-> <<" ", " ", " ", " ">>, color |-> "White"]

(* ---------------------------------------------------------- get_tag_color *)

\* get_tag_color without its lookup: every call takes the next colour
get_tag_color_forget(colors, tag) ==
  LET color == TAG_COLORS_LIST[(Cardinality(colors) % Len(TAG_COLORS_LIST)) + 1]
  IN [color |-> color,
      colors |-> {e \in colors : e.tag # tag} \cup {[tag |-> tag, color |-> color]}]

\* TAG_COLORS is a HashMap: a set of (tag, color) entries, one per key.
\* Returns the colour and the map after the call.
get_tag_color(colors, tag) ==
  IF \E e \in colors : e.tag = tag
  THEN [color |-> (CHOOSE e \in colors : e.tag = tag).color, colors |-> colors]
  ELSE LET color == TAG_COLORS_LIST[(Cardinality(colors) % Len(TAG_COLORS_LIST)) + 1]
       IN [color |-> color, colors |-> colors \cup {[tag |-> tag, color |-> color]}]

(* ----------------------------------------------- format_multiline_content *)

message_start_padding(hide_ts) ==
  LEFT_PADDING + (IF hide_ts THEN 0 ELSE TIMESTAMP_WIDTH) + TAG_WIDTH + 4 + 2

\* terminal_size().map(|(w, _)| w as usize).unwrap_or(80); the query's
\* result is [ok |-> FALSE] for Err and [ok |-> TRUE, w |-> columns] for Ok.
term_width_of(size) == IF size.ok THEN size.w ELSE DEFAULT_TERM_WIDTH

\* content.lines(): the content of one logcat line holds no line break (the
\* reader strips it and split_whitespace drops every other one), so it is
\* one line, or none when the content is empty.
lines(content) == IF content = <<>> THEN <<>> ELSE <<content>>

\* One pass of the body of "while !remaining.is_empty()": the chunk taken
\* and the text left before trim_start.  "Panic": the slice
\* &remaining[..available_width] splits a character.
wrap_chunk(remaining, available_width) ==
  IF Len(remaining) > available_width
  THEN IF ~is_char_boundary(remaining, available_width)
       THEN [kind |-> "Panic", chunk |-> <<>>, rest |-> <<>>]
       ELSE LET slice == Take(remaining, available_width)
                last_space == rfind_space(slice)
            IN IF last_space >= 0
               THEN [kind |-> "Ok", chunk |-> Take(remaining, last_space),
                     rest |-> Drop(remaining, last_space)]
               ELSE [kind |-> "Ok", chunk |-> Take(remaining, available_width),
                     rest |-> Drop(remaining, available_width)]
  ELSE [kind |-> "Ok", chunk |-> remaining, rest |-> <<>>]

(* -------------------------------------------------------- format_log_line *)

\* let changed = *last != tag;
show_tag(last, tag) == last # tag

\* *last = tag.clone();
next_last_tag(last, tag) == tag

tag_display_of(shown, tag) ==
  IF shown THEN pad_left(tag, TAG_WIDTH)
  ELSE pad_left(repeat(" ", Len(tag)), TAG_WIDTH)

timestamp_part_of(hide_ts, timestamp) ==
  IF hide_ts THEN <<>> ELSE pad_right(timestamp, TIMESTAMP_WIDTH) \o <<" ">>

(* ------------------------------------------------------------------ state *)

VARIABLES
  pc,             \* "read": main blocks in reader.lines(); "wrap": inside the
                  \* while loop of format_multiline_content; "done": main
                  \* returned Ok(()); "panicked": the thread panicked
  hide_timestamp, \* args.no_timestamp
  LAST_TAG,       \* thread_local LAST_TAG
  TAG_COLORS,     \* thread_local TAG_COLORS
  cur,            \* locals of the format_log_line call in progress
  lastOut,        \* the record println! wrote for the line read last
  owed,           \* lines the source delivered that no output record answers
  readFailed,     \* some read of the source returned Err
  tagHist,        \* tags of the last rendered records, oldest first
  firstSeen,      \* (tag, colour) of each tag's first rendered record, in order
  toCome          \* lines the source has yet to deliver; Endless: no limit

vars == << pc, hide_timestamp, LAST_TAG, TAG_COLORS, cur, lastOut, owed,
           readFailed, tagHist, firstSeen, toCome >>

Endless == 0 - 1

Idle ==
  [line |-> <<>>, parts |-> NoParts, size |-> [ok |-> FALSE, w |-> 0],
   ext_kind |-> "", term_width |-> 0, padding |-> 0, available_width |-> 0,
   level_str |-> <<>>, color |-> "", remaining |-> <<>>, result |-> <<>>]

NoOut ==
  [kind |-> "none", line |-> <<>>, text |-> <<>>, padding |-> <<>>,
   timestamp_part |-> <<>>, tag_display |-> <<>>, tag_color |-> "",
   level_str |-> <<>>, content |-> <<>>, tag |-> <<>>, shown |-> FALSE,
   available_width |-> 0, message |-> <<>>]

InitWith(hides, stream) ==
  /\ pc = "read"
  /\ hide_timestamp \in hides
  /\ LAST_TAG = <<>>
  /\ TAG_COLORS = {}
  /\ cur = Idle
  /\ lastOut = NoOut
  /\ owed = 0
  /\ readFailed = FALSE
  /\ tagHist = <<>>
  /\ firstSeen = <<>>
  /\ toCome = stream

Init == InitWith(BOOLEAN, MaxLines)



(* ----------------------------------------------------- what the source sends *)

Digits == <<"1", "2", "3", "4", "5", "6", "7", "8", "9">>

\* "t" stands for hh:mm:ss
TimeTokens == {<<"t">>} \cup {<<"t", ".">> \o Take(Digits, n) : n \in 0..MaxFrac}

GoodTime == <<"t", ".", "1", "2", "3">>

\* adb logcat -v threadtime: date time pid tid level tag: message, the pid
\* and tid columns padded with blanks
MkLine(time, level, rest) ==
  <<"d", " ">> \o time \o <<" ", " ", "p", " ", " ", "p", " ">> \o level \o <<" ">> \o rest

Utf8(s) ==
  \A i \in 1..Len(s) :
    /\ s[i] = Lead => (i < Len(s) /\ s[i + 1] = Cont)
    /\ s[i] = Cont => (i > 1 /\ s[i - 1] = Lead)

SingleSpaced(s) ==
  /\ s[1] # " "
  /\ s[Len(s)] # " "
  /\ \A i \in 1..(Len(s) - 1) : ~(s[i] = " " /\ s[i + 1] = " ")

Msgs ==
  {s \in UNION {[1..n -> {"a", " ", Lead, Cont}] : n \in 1..MaxMsgLen} :
     Utf8(s) /\ SingleSpaced(s)}

\* a tag of 13 two-byte characters: 13 columns, 26 bytes
WideTag == [i \in 1..(TAG_WIDTH + 1) |-> IF i % 2 = 1 THEN Lead ELSE Cont]

TagRests ==
  { WideTag \o <<":", " ", "a">>,         \* tag of more bytes than TAG_WIDTH
    <<"B", "B", ":", " ", "a">>,         \* tag BB
    <<":", " ", "a">>,                   \* empty tag
    <<"A">>,                             \* no message
    <<"A", " ", ":", " ", "a">>,         \* tag column padded
    <<"A", ":", " ", ":", " ", "a">> }   \* message ": a"

ShortLines ==
  { <<>>, <<"s", "h", " ", "l">>, <<"d", " ", "t", " ", " ", "p", " ", "p", " ", "I">> }

InputLines ==
  {MkLine(time, <<"I">>, <<"A", ":", " ", "a">>) : time \in TimeTokens}
    \cup {MkLine(GoodTime, level, <<"A", ":", " ">> \o m) : level \in {<<"I">>, <<"X">>}, m \in Msgs}
    \cup {MkLine(GoodTime, <<"I">>, rest) : rest \in TagRests}
    \cup ShortLines


\* The tags of SpecTags: tag 0 is empty, then A, B, AA, AB, BA, BB, AAA, ...
RECURSIVE TagBits(_)
TagBits(n) ==
  IF n <= 1 THEN <<>>
  ELSE Append(TagBits(n \div 2), IF n % 2 = 0 THEN "A" ELSE "B")

TagOf == [i \in 0..NumTags |-> TagBits(i + 1)]

TagLine == [i \in 0..NumTags |-> MkLine(GoodTime, <<"I">>, TagOf[i] \o <<":", " ", "m">>)]

TagLines == {TagLine[i] : i \in 0..NumTags}

(* ---------------------------------------------------------------- actions *)

\* extract_log_parts on every line a source of the model sends, computed once
Extracted == [l \in InputLines \cup TagLines |-> extract_log_parts(l)]

\* reader.lines() yields Ok(line): format_log_line up to the entry of the
\* while loop, or all of it and println! when the line has too few tokens.
\* size is what terminal_size() answers during this call.
ReadLine(line, size) ==
  /\ pc = "read"
  /\ toCome # 0
  /\ toCome' = IF toCome = Endless THEN Endless ELSE toCome - 1
  /\ LET ext == Extracted[line]
     IN CASE ext.kind = "None" ->
               /\ lastOut' = [NoOut EXCEPT !.kind = "raw", !.line = line, !.text = line]
               /\ cur' = [Idle EXCEPT !.line = line, !.ext_kind = "None"]
               /\ UNCHANGED << pc, owed >>
          [] ext.kind = "Panic" ->
               /\ pc' = "panicked"
               /\ cur' = [Idle EXCEPT !.line = line, !.ext_kind = "Panic"]
               /\ owed' = owed + 1
               /\ lastOut' = NoOut
          [] OTHER ->
               LET lc == get_level_color(ext.rec.level)
                   padding == message_start_padding(hide_timestamp)
                   term_width == term_width_of(size)
                   body == lines(ext.rec.message)
               IN /\ pc' = "wrap"
                  /\ cur' = [line |-> line, parts |-> ext.rec, size |-> size,
                             ext_kind |-> "Some", term_width |-> term_width,
                             padding |-> padding,
                             available_width |-> saturating_sub(term_width, padding),
                             level_str |-> lc.level_str, color |-> lc.color,
                             remaining |-> IF body = <<>> THEN <<>> ELSE body[1],
                             result |-> <<>>]
                  /\ owed' = owed + 1
                  /\ lastOut' = NoOut
  /\ UNCHANGED << hide_timestamp, LAST_TAG, TAG_COLORS, readFailed, tagHist, firstSeen >>

\* One iteration of "while !remaining.is_empty()".  A segment of the result
\* is the chunk with what was pushed before it: a line break and pad blanks
\* (nl), or nothing for the first chunk.  Colours are on, so a pushed chunk
\* makes the result non-empty even when the chunk is empty.
WrapStep ==
  /\ pc = "wrap"
  /\ cur.remaining # <<>>
  /\ Len(cur.result) < MaxSegs
  /\ LET st == wrap_chunk(cur.remaining, cur.available_width)
     IN IF st.kind = "Panic"
        THEN /\ pc' = "panicked"
             /\ cur' = cur
        ELSE /\ pc' = "wrap"
             /\ cur' = [cur EXCEPT
                          !.result = Append(@, [nl |-> cur.result # <<>>,
                                                pad |-> IF cur.result # <<>> THEN cur.padding ELSE 0,
                                                text |-> st.chunk,
                                                color |-> cur.color]),
                          !.remaining = trim_start(st.rest)]
  /\ UNCHANGED << hide_timestamp, LAST_TAG, TAG_COLORS, lastOut, owed, readFailed,
                  tagHist, firstSeen, toCome >>

\* The loop is over: the rest of format_log_line, and println! in main.
FinishLine ==
  /\ pc = "wrap"
  /\ cur.remaining = <<>>
  /\ LET tag == cur.parts.tag
         shown == show_tag(LAST_TAG, tag)
         tc == get_tag_color(TAG_COLORS, tag)
     IN /\ LAST_TAG' = next_last_tag(LAST_TAG, tag)
        /\ TAG_COLORS' = tc.colors
        /\ lastOut' = [kind |-> "fmt", line |-> cur.line, text |-> <<>>,
                       padding |-> repeat(" ", LEFT_PADDING),
                       timestamp_part |-> timestamp_part_of(hide_timestamp, cur.parts.timestamp),
                       tag_display |-> tag_display_of(shown, tag),
                       tag_color |-> tc.color,
                       level_str |-> cur.level_str,
                       content |-> cur.result,
                       tag |-> tag, shown |-> shown,
                       available_width |-> cur.available_width,
                       message |-> cur.parts.message]
        /\ tagHist' = IF Len(tagHist) < HistWindow THEN Append(tagHist, tag)
                      ELSE Append(Tail(tagHist), tag)
        /\ firstSeen' = IF \E k \in 1..Len(firstSeen) : firstSeen[k].tag = tag
                        THEN firstSeen
                        ELSE Append(firstSeen, [tag |-> tag, color |-> tc.color])
  /\ pc' = "read"
  /\ cur' = Idle
  /\ owed' = owed - 1
  /\ UNCHANGED << hide_timestamp, readFailed, toCome >>

\* reader.lines() yields Err: "if let Ok(line)" skips the body and the for
\* loop asks the reader again.
ReadErr ==
  /\ pc = "read"
  /\ toCome # 0
  /\ owed < MaxOwed
  /\ owed' = owed + 1
  /\ readFailed' = TRUE
  /\ UNCHANGED << pc, hide_timestamp, LAST_TAG, TAG_COLORS, cur, lastOut, tagHist, firstSeen, toCome >>

\* reader.lines() yields None: the loop ends and main returns Ok(()).
ReadEof ==
  /\ pc = "read"
  /\ pc' = "done"
  /\ UNCHANGED << hide_timestamp, LAST_TAG, TAG_COLORS, cur, lastOut, owed, readFailed,
                  tagHist, firstSeen, toCome >>

(* --------------------------------------------------------- specifications *)

\* what terminal_size() may answer while timestamps are hidden or shown
TermSizes(hide_ts) ==
  {[ok |-> FALSE, w |-> 0], [ok |-> TRUE, w |-> 0]}
    \cup {[ok |-> TRUE, w |-> message_start_padding(hide_ts) + k] : k \in 0..MaxAvail}

Next ==
  \/ \E line \in InputLines, size \in TermSizes(hide_timestamp) : ReadLine(line, size)
  \/ WrapStep
  \/ FinishLine
  \/ ReadErr
  \/ ReadEof

Spec == Init /\ [][Next]_vars

\* A source that never ends and sends one record per line.  Its tag is the
\* next new one (new tags come in the order 0, 1, 2, ... or in the order
\* NumTags, NumTags - 1, ...), one of the last two rendered, or the first one
\* ever sent.
SentTags == {i \in 0..NumTags : \E k \in 1..Len(firstSeen) : firstSeen[k].tag = TagOf[i]}

OldTags ==
  {i \in SentTags : \/ \E k \in 1..Len(tagHist) : k + 2 > Len(tagHist) /\ tagHist[k] = TagOf[i]
                    \/ firstSeen[1].tag = TagOf[i]}

NewTags ==
  IF SentTags = {} THEN {0, NumTags}
  ELSE IF 0 \in SentTags THEN {MaxOf(SentTags) + 1} \cap (0..NumTags)
  ELSE {MinOf(SentTags) - 1}

InitTags == InitWith({FALSE}, Endless)

NextTags ==
  \/ \E i \in OldTags \cup NewTags : ReadLine(TagLine[i], [ok |-> FALSE, w |-> 0])
  \/ WrapStep
  \/ FinishLine
  \/ ReadErr
  \/ ReadEof

SpecTags == InitTags /\ [][NextTags]_vars

(* ----------------------------------------------------------------- claims *)

NotBlank(b) == b # " "

\* the text without its blanks
NonWs(s) == SelectSeq(s, NotBlank)

\* the chunks of a result, one after the other
RECURSIVE Chunks(_)
Chunks(content) ==
  IF content = <<>> THEN <<>> ELSE content[1].text \o Chunks(Tail(content))

\* the column at which the message starts on the first output line
MessageColumn(out) ==
  chars_count(out.padding) + chars_count(out.timestamp_part)
    + chars_count(out.tag_display) + 1 + chars_count(out.level_str) + 1

\* C1: the k-th distinct tag to appear (k from 0) has colour palette[k mod 12],
\* its entry stays in the registry unchanged, and every later record of that
\* tag carries the same colour.
C1_TagColorFixed ==
  /\ \A k \in 1..Len(firstSeen) :
       /\ firstSeen[k].color = TAG_COLORS_LIST[((k - 1) % 12) + 1]
       /\ [tag |-> firstSeen[k].tag, color |-> firstSeen[k].color] \in TAG_COLORS
  /\ Cardinality(TAG_COLORS) = Len(firstSeen)
  /\ lastOut.kind = "fmt" =>
       \E k \in 1..Len(firstSeen) :
         firstSeen[k].tag = lastOut.tag /\ firstSeen[k].color = lastOut.tag_color

\* C1 happens: thirteen tags have appeared, the thirteenth took the first
\* tag's colour, and the first tag is rendered again with its colour.
C1_Witness ==
  /\ Len(firstSeen) >= 13
  /\ firstSeen[13].color = firstSeen[1].color
  /\ lastOut.kind = "fmt"
  /\ lastOut.tag = firstSeen[1].tag
  /\ lastOut.tag_color = "Red"
  /\ LAST_TAG = lastOut.tag

\* C2: a rendered record's tag column shows the tag, right-aligned, when the
\* tag differs from the tag of the record rendered just before it (and on
\* the first rendered record); otherwise it is blank, and as wide as the
\* column that shows the tag (TAG_WIDTH columns, or the tag's own width when
\* the tag is wider).
C2_TagSuppression ==
  lastOut.kind = "fmt" =>
    LET n == Len(tagHist)
        tag == tagHist[n]
        differs == n = 1 \/ tagHist[n - 1] # tag
        width == IF chars_count(tag) > TAG_WIDTH THEN chars_count(tag) ELSE TAG_WIDTH
    IN /\ tag = lastOut.tag
       /\ IF differs
          THEN lastOut.tag_display = repeat(" ", width - chars_count(tag)) \o tag
          ELSE lastOut.tag_display = repeat(" ", width)

\* C3: whenever main waits for the next line, every line the source
\* delivered has one output record, and a record passed through raw is the
\* line itself.
C3_NoLineDropped ==
  /\ pc = "read" => owed = 0
  /\ lastOut.kind = "raw" => lastOut.text = lastOut.line

\* C4: the non-blank bytes of everything after the first ": " of the joined
\* tokens 6..n are the non-blank bytes of the rendered chunks, in order.
C4_MessageKept ==
  lastOut.kind = "fmt" =>
    LET parts == split_whitespace(lastOut.line)
        joined == join(SubSeq(parts, 6, Len(parts)))
        pos == find(joined, <<":", " ">>)
        after == IF pos >= 0 THEN Drop(joined, pos + 2) ELSE <<>>
    IN NonWs(Chunks(lastOut.content)) = NonWs(after)

\* C5: a line of at least 6 tokens is extracted to a record, never a panic,
\* and the fraction of its timestamp is the fraction of the second token cut
\* or padded with zeros to 3 digits (000 when the token has no dot).
C5_ThreeDigitFraction ==
  LET parts == split_whitespace(cur.line)
  IN Len(parts) >= 6 =>
       /\ cur.ext_kind = "Some"
       /\ LET given == split_dot(parts[2])
              frac == IF Len(given) >= 2 THEN given[2] ELSE <<>>
          IN cur.parts.timestamp
               = given[1] \o <<".">> \o Take(frac \o <<"0", "0", "0">>, 3)

\* C6: wrapping never aborts; a message of at most W characters is one
\* segment; no segment is longer than W characters; a longer message is cut
\* first before the last blank among its first W characters, or after W
\* characters when there is no blank among them.
C6_Wrapping ==
  /\ ~(pc = "panicked" /\ cur.ext_kind = "Some")
  /\ lastOut.kind = "fmt" =>
       LET W == lastOut.available_width
           content == lastOut.content
           msg == lastOut.message
           window == Take(msg, W)
       IN /\ (msg # <<>> /\ chars_count(msg) <= W) => Len(content) = 1
          /\ \A i \in 1..Len(content) : chars_count(content[i].text) <= W
          /\ (chars_count(msg) = Len(msg) /\ Len(msg) > W) =>
               content[1].text = IF rfind_space(window) >= 0
                                 THEN Take(msg, rfind_space(window))
                                 ELSE window

\* C7: every continuation segment starts on a new line behind as many blanks
\* as the column at which the message starts on the first output line.
C7_ContinuationAligned ==
  lastOut.kind = "fmt" =>
    \A i \in 2..Len(lastOut.content) :
      /\ lastOut.content[i].nl
      /\ lastOut.content[i].pad = MessageColumn(lastOut)

\* C8: the width used for wrapping is 80 when the terminal query fails and
\* when it reports zero columns, and the reported width otherwise.
C8_WidthFallback ==
  pc = "wrap" =>
    /\ cur.term_width > 0
    /\ cur.term_width
         = IF cur.size.ok /\ cur.size.w > 0 THEN cur.size.w ELSE DEFAULT_TERM_WIDTH

\* C9: once a read of the source has returned an error, the only step left
\* is the exit with status zero: no further read, no further record.
C9_ReadFailureEndsLoop == [][readFailed => pc' = "done"]_vars

\* C10: every iteration of the wrapping loop leaves the loop running on a
\* strictly shorter remaining text.
C10_WrapShortens ==
  [][(pc = "wrap" /\ cur.remaining # <<>>)
       => (pc' = "wrap" /\ Len(cur'.remaining) < Len(cur.remaining))]_vars

====
